---- MODULE Spec2Model ----
(***************************************************************************)
(* A model of mido/messages.py: the registry of MIDI message types, the    *)
(* Message object with its validated attribute writes, the wire encoder    *)
(* (Message.bytes) and the text codec (text_format, text_parse,            *)
(* text_parse_stream).                                                     *)
(*                                                                         *)
(* Python values are records [kind, n, s, items]:                          *)
(*   kind "int"   : the integer n                                          *)
(*   kind "float" : the real number n/10 (one decimal is all the inputs    *)
(*                  here need)                                             *)
(*   kind "str"   : the string s; items are its characters, as atoms       *)
(*   kind "list", "tuple" : the sequence items of atoms [kind, n]          *)
(*   kind "spec"  : a reference to the n-th MessageSpec                    *)
(* A Message object is its __dict__: a function from attribute names to    *)
(* values.  The module is Python 2 code (it reads exception.message), and  *)
(* is modelled with Python 2.7 semantics.                                  *)
(*                                                                         *)
(* A text is the sequence of its characters, each a one-character string;  *)
(* Chars gives the characters of the words the model writes.               *)
(***************************************************************************)
EXTENDS Integers, Sequences, FiniteSets, TLC

VARIABLES
    a,            \* the message the program holds (NoMessage before construction)
    b,            \* a second message: a copy of a, or one constructed on its own
    last,         \* the last operation, its arguments and the exception it raised
    text,         \* a line of text: the output of text_format, the input of text_parse
    parsed,       \* the outcome of text_parse(text)
    encoded,      \* the outcome of Message.bytes() / encode_pitch / encode_pos
    stream,       \* text_parse_stream: the lines of the stream
    pos,          \* text_parse_stream: number of lines consumed by the for loop
    line_number,  \* text_parse_stream: the local line_number
    results,      \* text_parse_stream: the pairs yielded so far
    gen           \* text_parse_stream: the generator is "idle" (not created), "running",
                  \* "exhausted" (the for loop ended) or "failed" (an exception left it)

vars == <<a, b, last, text, parsed, encoded, stream, pos,
          line_number, results, gen>>

----------------------------------------------------------------------------
(* Bounds of the model *)

\* longest data sequence written to a sysex message
MaxData == 2
\* most keyword arguments passed to Message(...) or copy(...)
MaxKwargs == 1
\* most lines in a stream given to text_parse_stream
MaxLines == 3

----------------------------------------------------------------------------
(* Program constants *)

MIN_PITCHWHEEL == -8192
MAX_PITCHWHEEL == 8191
MIN_SONGPOS == 0
MAX_SONGPOS == 16383

----------------------------------------------------------------------------
(* Python values *)

IntV(i) == [kind |-> "int", n |-> i, s |-> "", items |-> <<>>]
FloatV(tenths) == [kind |-> "float", n |-> tenths, s |-> "", items |-> <<>>]
StrA == [kind |-> "str", n |-> 0]
\* iterating a string gives strings: one atom stands for its characters
StrV(chars) ==
    [kind |-> "str", n |-> 0, s |-> chars,
     items |-> IF chars = "" THEN <<>> ELSE <<StrA>>]
ListV(seq) == [kind |-> "list", n |-> 0, s |-> "", items |-> seq]
TupleV(seq) == [kind |-> "tuple", n |-> 0, s |-> "", items |-> seq]
SpecRef(i) == [kind |-> "spec", n |-> i, s |-> "", items |-> <<>>]
NoneV == [kind |-> "None", n |-> 0, s |-> "", items |-> <<>>]

IntA(i) == [kind |-> "int", n |-> i]

\* no Message object
NoMessage == <<>>

\* the outcome of a call: its return value, or the exception it raised
Return(v) == [exc |-> "none", detail |-> "", ret |-> v]
Raise(e, msg) == [exc |-> e, detail |-> msg, ret |-> NoneV]

Range(seq) == {seq[i] : i \in 1..Len(seq)}

\* x & y, x | y on naturals, bit by bit
RECURSIVE BitAnd(_, _)
BitAnd(x, y) ==
    IF x = 0 \/ y = 0 THEN 0
    ELSE (x % 2) * (y % 2) + 2 * BitAnd(x \div 2, y \div 2)

RECURSIVE BitOr(_, _)
BitOr(x, y) ==
    IF x = 0 THEN y
    ELSE IF y = 0 THEN x
    ELSE (IF x % 2 = 1 \/ y % 2 = 1 THEN 1 ELSE 0) + 2 * BitOr(x \div 2, y \div 2)

\* x >> k
RECURSIVE ShiftRight(_, _)
ShiftRight(x, k) == IF k = 0 THEN x ELSE ShiftRight(x \div 2, k - 1)

----------------------------------------------------------------------------
(* The registry *)

Size(k) == [inf |-> FALSE, n |-> k]
Inf == [inf |-> TRUE, n |-> 0]

MessageSpec(status_byte, type_, arguments, size) ==
    [status_byte |-> status_byte, type |-> type_, arguments |-> arguments,
     size |-> size,
     valid_attributes |-> Range(arguments) \cup {"time"}]

get_message_specs ==
    << MessageSpec(128, "note_off", <<"channel", "note", "velocity">>, Size(3)),
       MessageSpec(144, "note_on", <<"channel", "note", "velocity">>, Size(3)),
       MessageSpec(160, "polytouch", <<"channel", "note", "value">>, Size(3)),
       MessageSpec(176, "control_change", <<"channel", "control", "value">>, Size(3)),
       MessageSpec(192, "program_change", <<"channel", "program">>, Size(3)),
       MessageSpec(208, "aftertouch", <<"channel", "value">>, Size(3)),
       MessageSpec(224, "pitchwheel", <<"channel", "pitch">>, Size(3)),
       MessageSpec(240, "sysex", <<"data">>, Inf),
       MessageSpec(241, "undefined_f1", <<>>, Size(1)),
       MessageSpec(242, "songpos", <<"pos">>, Size(3)),
       MessageSpec(243, "song", <<"song">>, Size(2)),
       MessageSpec(244, "undefined_f4", <<>>, Size(1)),
       MessageSpec(245, "undefined_f5", <<>>, Size(1)),
       MessageSpec(246, "tune_request", <<>>, Size(1)),
       MessageSpec(247, "sysex_end", <<>>, Size(1)),
       MessageSpec(248, "clock", <<>>, Size(1)),
       MessageSpec(249, "undefined_f9", <<>>, Size(1)),
       MessageSpec(250, "start", <<>>, Size(1)),
       MessageSpec(251, "continue", <<>>, Size(1)),
       MessageSpec(252, "stop", <<>>, Size(1)),
       MessageSpec(253, "undefined_fd", <<>>, Size(1)),
       MessageSpec(254, "active_sensing", <<>>, Size(1)),
       MessageSpec(255, "reset", <<>>, Size(1)) >>

SpecIds == 1..Len(get_message_specs)

\* the keys under which the class body files the i-th spec in _spec_lookup
LookupKeys(i) ==
    LET spec == get_message_specs[i] IN
    (IF spec.status_byte < 240
        THEN {IntV(BitOr(spec.status_byte, channel)) : channel \in 0..15}
        ELSE {IntV(spec.status_byte)})
    \cup {StrV(spec.type)}

\* _spec_lookup as the class body builds it: key -> index of its spec
_spec_lookup ==
    [k \in UNION {LookupKeys(i) : i \in SpecIds} |->
        CHOOSE i \in SpecIds : k \in LookupKeys(i)]

\* the key a dictionary files a number under: Python's 144.0 == 144, with
\* equal hashes, so a float with an integral value finds the integer's entry
Hashed(k) ==
    IF k.kind = "float" /\ k.n % 10 = 0
    THEN [k EXCEPT !.kind = "int", !.n = k.n \div 10]
    ELSE k

\* self._spec_lookup[key]: the index of the spec, 0 for a KeyError
spec_lookup(k) ==
    IF Hashed(k) \in DOMAIN _spec_lookup THEN _spec_lookup[Hashed(k)] ELSE 0

----------------------------------------------------------------------------
(* The check_ functions *)

check_time(time) ==
    IF ~(time.kind = "int" \/ time.kind = "float")
    THEN Raise("TypeError", "time must be an integer or float")
    ELSE Return(NoneV)

check_channel(channel) ==
    IF channel.kind # "int" THEN Raise("TypeError", "channel must be an integer")
    ELSE IF ~(0 <= channel.n /\ channel.n <= 15)
    THEN Raise("ValueError", "channel must be in range 0 .. 15")
    ELSE Return(NoneV)

check_pos(p) ==
    IF p.kind # "int" THEN Raise("TypeError", "song pos must be and integer")
    ELSE IF ~(MIN_SONGPOS <= p.n /\ p.n <= MAX_SONGPOS)
    THEN Raise("ValueError", "song pos must be in range")
    ELSE Return(NoneV)

check_pitch(pitch) ==
    IF pitch.kind # "int" THEN Raise("TypeError", "pichwheel value must be an integer")
    ELSE IF ~(MIN_PITCHWHEEL <= pitch.n /\ pitch.n <= MAX_PITCHWHEEL)
    THEN Raise("ValueError", "pitchwheel value must be in range")
    ELSE Return(NoneV)

\* check_databyte with its upper limit one too high
check_databyte_wide(value) ==
    IF value.kind # "int" THEN Raise("TypeError", "data byte must be an integer")
    ELSE IF ~(0 <= value.n /\ value.n <= 128)
    THEN Raise("ValueError", "data byte must be in range 0 .. 127")
    ELSE Return(NoneV)

check_databyte(value) ==
    IF value.kind # "int" THEN Raise("TypeError", "data byte must be an integer")
    ELSE IF ~(0 <= value.n /\ value.n <= 127)
    THEN Raise("ValueError", "data byte must be in range 0 .. 127")
    ELSE Return(NoneV)

\* the first exception check_databyte raises over seq[k..], if any
RECURSIVE CheckEach(_, _)
CheckEach(seq, k) ==
    IF k > Len(seq) THEN Return(NoneV)
    ELSE LET r == check_databyte(seq[k]) IN
         IF r.exc # "none" THEN r ELSE CheckEach(seq, k + 1)

check_data(data_bytes) ==
    IF data_bytes.kind \notin {"list", "tuple", "str"}
    THEN Raise("TypeError", "object is not iterable")
    ELSE LET tup == TupleV(data_bytes.items)
             r == CheckEach(tup.items, 1)
         IN  IF r.exc # "none" THEN r ELSE Return(tup)

\* globals()['check_{}'.format(name)], check_databyte on a KeyError
check(name, value) ==
    CASE name = "time" -> check_time(value)
      [] name = "channel" -> check_channel(value)
      [] name = "pos" -> check_pos(value)
      [] name = "pitch" -> check_pitch(value)
      [] name = "data" -> check_data(value)
      [] name = "databyte" -> check_databyte(value)
      [] OTHER -> check_databyte(value)

----------------------------------------------------------------------------
(* The Message object *)

SpecOf(self) == get_message_specs[self["_spec"].n]

\* self._set(name, value)
set(self, name, value) == (name :> value) @@ self

\* an exception raised in a method of self: ret is self's __dict__ as the
\* method leaves it
RaiseIn(self, e, msg) == [exc |-> e, detail |-> msg, ret |-> self]

\* __setattr__ after `ret = check(value)`
Store(self, name, value, r) ==
    IF r.exc # "none" THEN RaiseIn(self, r.exc, r.detail)
    ELSE Return((name :> (IF name = "data" THEN r.ret ELSE value)) @@ self)

\* __setattr__ without its two refusals: any other name is set as on a
\* plain object
setattr_any_name(self, name, value) ==
    IF name \in SpecOf(self).valid_attributes
    THEN Store(self, name, value, check(name, value))
    ELSE Return((name :> value) @@ self)

\* self.__setattr__(name, value): the exception raised, if any, and the
\* __dict__ afterwards
setattr(self, name, value) ==
    IF name \in SpecOf(self).valid_attributes
    THEN Store(self, name, value, check(name, value))
    ELSE IF name \in DOMAIN self
    THEN RaiseIn(self, "AttributeError", "attribute is read only")
    ELSE RaiseIn(self, "AttributeError", "message has no attribute")

\* self.__delattr__(name)
delattr(self, name) ==
    RaiseIn(self, "AttributeError", "attribute can not be deleted")

\* the defaults with the channel of a status byte forgotten
DefaultOfZero(name, type_) ==
    IF name = "data" THEN TupleV(<<>>) ELSE IntV(0)

\* the default of the k-th argument in Message.__init__
DefaultOf(name, type_) ==
    IF name = "data" THEN TupleV(<<>>)
    ELSE IF name = "channel"
    THEN (IF type_.kind = "int" THEN IntV(BitAnd(type_.n, 15)) ELSE IntV(0))
    ELSE IntV(0)

\* Message.__init__, the loop setting defaults from the k-th argument on
RECURSIVE SetDefaults(_, _, _)
SetDefaults(self, type_, k) ==
    LET arguments == SpecOf(self).arguments IN
    IF k > Len(arguments) THEN Return(self)
    ELSE LET r == setattr(self, arguments[k], DefaultOf(arguments[k], type_)) IN
         IF r.exc # "none" THEN r ELSE SetDefaults(r.ret, type_, k + 1)

\* Message.__init__, the loop over the keyword arguments from the k-th on;
\* arguments is the sequence of <<name, value>> in the order items() gives them
RECURSIVE SetArguments(_, _, _)
SetArguments(self, arguments, k) ==
    IF k > Len(arguments) THEN Return(self)
    ELSE LET r == setattr(self, arguments[k][1], arguments[k][2]) IN
         IF r.exc = "AttributeError"
         THEN Raise("ValueError", "invalid keyword argument for this message type")
         ELSE IF r.exc # "none" THEN r
         ELSE SetArguments(r.ret, arguments, k + 1)

\* Message(type_, **arguments): the new object's __dict__, or the exception
Message(type_, arguments) ==
    LET i == spec_lookup(type_) IN
    IF i = 0 THEN Raise("ValueError", "invalid type name or status byte")
    ELSE LET self0 == set(set(NoMessage, "_spec", SpecRef(i)),
                          "type", StrV(get_message_specs[i].type))
             r1 == SetDefaults(self0, type_, 1)
         IN  IF r1.exc # "none" THEN r1
             ELSE SetArguments(set(r1.ret, "time", IntV(0)), arguments, 1)

\* the property status_byte
status_byte(self) ==
    LET byte == SpecOf(self).status_byte IN
    IF byte < 240 THEN BitOr(byte, self["channel"].n) ELSE byte

\* Python's v1 == v2 on the values a message holds
PyEq(v1, v2) ==
    \/ v1 = v2
    \/ v1.kind = "int" /\ v2.kind = "float" /\ 10 * v1.n = v2.n
    \/ v1.kind = "float" /\ v2.kind = "int" /\ v1.n = 10 * v2.n

\* a comparison key that takes the time in
key_with_time(msg) ==
    LET arguments == Append(SpecOf(msg).arguments, "time") IN
    <<msg["type"]>> \o [k \in 1..Len(arguments) |-> msg[arguments[k]]]

\* the comparison key of Message.__eq__
key(msg) ==
    LET arguments == SpecOf(msg).arguments IN
    <<msg["type"]>> \o [k \in 1..Len(arguments) |-> msg[arguments[k]]]

\* Message.__eq__(self, other), other a Message
eq(self, other) ==
    /\ Len(key(self)) = Len(key(other))
    /\ \A k \in 1..Len(key(self)) : PyEq(key(self)[k], key(other)[k])

\* Message.copy, the loop building arguments from the k-th name on
RECURSIVE CopyArguments(_, _, _)
CopyArguments(self, overrides, k) ==
    LET names == Append(SpecOf(self).arguments, "time") IN
    IF k > Len(names) THEN <<>>
    ELSE LET given == {i \in 1..Len(overrides) : overrides[i][1] = names[k]}
             value == IF given # {}
                      THEN overrides[CHOOSE i \in given : TRUE][2]
                      ELSE self[names[k]]
         IN  <<<<names[k], value>>>> \o CopyArguments(self, overrides, k + 1)

\* self.copy(**overrides), overrides a sequence of <<name, value>>
copy(self, overrides) ==
    Message(self["type"], CopyArguments(self, overrides, 1))

----------------------------------------------------------------------------
(* The wire encoder *)

encode_channel(channel) == <<>>

encode_data(data) == [i \in 1..Len(data.items) |-> data.items[i].n] \o <<247>>

\* encode_pitch splitting the value into bytes of 8 bits
encode_pitch_8bit(pitch) ==
    LET shifted == pitch.n - MIN_PITCHWHEEL IN
    <<BitAnd(shifted, 255), ShiftRight(shifted, 8)>>

encode_pitch(pitch) ==
    LET shifted == pitch.n - MIN_PITCHWHEEL IN
    <<BitAnd(shifted, 127), ShiftRight(shifted, 7)>>

encode_pos(p) == <<BitAnd(p.n, 127), ShiftRight(p.n, 7)>>

\* globals()['encode_{}'.format(name)](value), value itself on a KeyError
encode(name, value) ==
    CASE name = "channel" -> encode_channel(value)
      [] name = "data" -> encode_data(value)
      [] name = "pitch" -> encode_pitch(value)
      [] name = "pos" -> encode_pos(value)
      [] OTHER -> <<value.n>>

\* Message.bytes(), the loop from the k-th argument on
RECURSIVE EncodeFrom(_, _)
EncodeFrom(self, k) ==
    LET arguments == SpecOf(self).arguments IN
    IF k > Len(arguments) THEN <<>>
    ELSE encode(arguments[k], self[arguments[k]]) \o EncodeFrom(self, k + 1)

bytes(self) == <<status_byte(self)>> \o EncodeFrom(self, 1)

----------------------------------------------------------------------------
(* Text: a string is the sequence of its characters *)

\* the characters of the names the program uses
Chars ==
    "note_off" :> <<"n", "o", "t", "e", "_", "o", "f", "f">> @@
    "note_on" :> <<"n", "o", "t", "e", "_", "o", "n">> @@
    "polytouch" :> <<"p", "o", "l", "y", "t", "o", "u", "c", "h">> @@
    "control_change" :> <<"c", "o", "n", "t", "r", "o", "l", "_", "c", "h", "a", "n", "g", "e">> @@
    "program_change" :> <<"p", "r", "o", "g", "r", "a", "m", "_", "c", "h", "a", "n", "g", "e">> @@
    "aftertouch" :> <<"a", "f", "t", "e", "r", "t", "o", "u", "c", "h">> @@
    "pitchwheel" :> <<"p", "i", "t", "c", "h", "w", "h", "e", "e", "l">> @@
    "sysex" :> <<"s", "y", "s", "e", "x">> @@
    "undefined_f1" :> <<"u", "n", "d", "e", "f", "i", "n", "e", "d", "_", "f", "1">> @@
    "songpos" :> <<"s", "o", "n", "g", "p", "o", "s">> @@
    "song" :> <<"s", "o", "n", "g">> @@
    "undefined_f4" :> <<"u", "n", "d", "e", "f", "i", "n", "e", "d", "_", "f", "4">> @@
    "undefined_f5" :> <<"u", "n", "d", "e", "f", "i", "n", "e", "d", "_", "f", "5">> @@
    "tune_request" :> <<"t", "u", "n", "e", "_", "r", "e", "q", "u", "e", "s", "t">> @@
    "sysex_end" :> <<"s", "y", "s", "e", "x", "_", "e", "n", "d">> @@
    "clock" :> <<"c", "l", "o", "c", "k">> @@
    "undefined_f9" :> <<"u", "n", "d", "e", "f", "i", "n", "e", "d", "_", "f", "9">> @@
    "start" :> <<"s", "t", "a", "r", "t">> @@
    "continue" :> <<"c", "o", "n", "t", "i", "n", "u", "e">> @@
    "stop" :> <<"s", "t", "o", "p">> @@
    "undefined_fd" :> <<"u", "n", "d", "e", "f", "i", "n", "e", "d", "_", "f", "d">> @@
    "active_sensing" :> <<"a", "c", "t", "i", "v", "e", "_", "s", "e", "n", "s", "i", "n", "g">> @@
    "reset" :> <<"r", "e", "s", "e", "t">> @@
    "channel" :> <<"c", "h", "a", "n", "n", "e", "l">> @@
    "note" :> <<"n", "o", "t", "e">> @@
    "velocity" :> <<"v", "e", "l", "o", "c", "i", "t", "y">> @@
    "value" :> <<"v", "a", "l", "u", "e">> @@
    "control" :> <<"c", "o", "n", "t", "r", "o", "l">> @@
    "program" :> <<"p", "r", "o", "g", "r", "a", "m">> @@
    "pitch" :> <<"p", "i", "t", "c", "h">> @@
    "data" :> <<"d", "a", "t", "a">> @@
    "pos" :> <<"p", "o", "s">> @@
    "time" :> <<"t", "i", "m", "e">> @@
    "type" :> <<"t", "y", "p", "e">> @@
    "_spec" :> <<"_", "s", "p", "e", "c">> @@
    "foo" :> <<"f", "o", "o">> @@
    "bogus" :> <<"b", "o", "g", "u", "s">>

\* the name a word spells; words that spell none of the names above are
\* all "<other>", which is no type name and no attribute of any message
NameOf(word) ==
    IF \E name \in DOMAIN Chars : Chars[name] = word
    THEN CHOOSE name \in DOMAIN Chars : Chars[name] = word
    ELSE "<other>"

Digits == <<"0", "1", "2", "3", "4", "5", "6", "7", "8", "9">>
IsDigit(c) == \E i \in 1..10 : Digits[i] = c
DigitValue(c) == (CHOOSE i \in 1..10 : Digits[i] = c) - 1
IsSpace(c) == c = " "

\* str(n) for a natural n
RECURSIVE NatText(_)
NatText(n) ==
    IF n < 10 THEN <<Digits[n + 1]>>
    ELSE NatText(n \div 10) \o <<Digits[(n % 10) + 1]>>

\* str(value) for an integer or a float
str(value) ==
    LET mag == IF value.n < 0 THEN -value.n ELSE value.n
        sign == IF value.n < 0 THEN <<"-">> ELSE <<>>
    IN  IF value.kind = "float"
        THEN sign \o NatText(mag \div 10) \o <<".">> \o NatText(mag % 10)
        ELSE sign \o NatText(mag)

\* the value of a run of digits
RECURSIVE DigitsValue(_)
DigitsValue(txt) ==
    IF txt = <<>> THEN 0
    ELSE 10 * DigitsValue(SubSeq(txt, 1, Len(txt) - 1)) + DigitValue(txt[Len(txt)])

AllDigits(txt) == \A i \in 1..Len(txt) : IsDigit(txt[i])
Signed(txt) == txt # <<>> /\ txt[1] \in {"+", "-"}
Unsigned(txt) == IF Signed(txt) THEN Tail(txt) ELSE txt
SignOf(txt) == IF Signed(txt) /\ txt[1] = "-" THEN -1 ELSE 1

\* int(txt): an optional sign and one or more digits, a ValueError otherwise
int(txt) ==
    IF Unsigned(txt) # <<>> /\ AllDigits(Unsigned(txt))
    THEN Return(IntV(SignOf(txt) * DigitsValue(Unsigned(txt))))
    ELSE Raise("ValueError", "invalid literal for int()")

\* float(txt) for the decimal forms "d", "d.", ".d", "d.d" with a sign; the
\* value is kept to one decimal
float(txt) ==
    LET u == Unsigned(txt)
        dots == {i \in 1..Len(u) : u[i] = "."}
        dot == IF dots = {} THEN Len(u) + 1 ELSE CHOOSE i \in dots : TRUE
        whole == SubSeq(u, 1, dot - 1)
        frac == SubSeq(u, dot + 1, Len(u))
    IN  IF /\ Cardinality(dots) <= 1
           /\ AllDigits(whole) /\ AllDigits(frac)
           /\ Len(whole) + Len(frac) >= 1
        THEN Return(FloatV(SignOf(txt) * (10 * DigitsValue(whole)
                 + (IF frac = <<>> THEN 0 ELSE DigitValue(frac[1])))))
        ELSE Raise("ValueError", "could not convert string to float")

\* text.split(): the words between runs of whitespace
RECURSIVE SplitWords(_, _, _)
SplitWords(txt, k, word) ==
    IF k > Len(txt) THEN (IF word = <<>> THEN <<>> ELSE <<word>>)
    ELSE IF IsSpace(txt[k])
    THEN (IF word = <<>> THEN <<>> ELSE <<word>>) \o SplitWords(txt, k + 1, <<>>)
    ELSE SplitWords(txt, k + 1, Append(word, txt[k]))

split(txt) == SplitWords(txt, 1, <<>>)

\* text.split(sep): the pieces between separators, empty pieces kept
RECURSIVE SplitPieces(_, _, _, _)
SplitPieces(txt, sep, k, piece) ==
    IF k > Len(txt) THEN <<piece>>
    ELSE IF txt[k] = sep
    THEN <<piece>> \o SplitPieces(txt, sep, k + 1, <<>>)
    ELSE SplitPieces(txt, sep, k + 1, Append(piece, txt[k]))

split_on(txt, sep) == SplitPieces(txt, sep, 1, <<>>)

\* text.strip()
RECURSIVE strip(_)
strip(txt) ==
    IF txt = <<>> THEN txt
    ELSE IF IsSpace(txt[1]) THEN strip(Tail(txt))
    ELSE IF IsSpace(txt[Len(txt)]) THEN strip(SubSeq(txt, 1, Len(txt) - 1))
    ELSE txt

startswith(txt, c) == txt # <<>> /\ txt[1] = c
endswith(txt, c) == txt # <<>> /\ txt[Len(txt)] = c
\* text[1:-1]
Inner(txt) == SubSeq(txt, 2, Len(txt) - 1)

\* sep.join(words)
RECURSIVE join(_, _)
join(sep, words) ==
    IF words = <<>> THEN <<>>
    ELSE IF Len(words) = 1 THEN words[1]
    ELSE words[1] \o sep \o join(sep, Tail(words))

----------------------------------------------------------------------------
(* The text codec *)

\* text_format: the word of the k-th argument, name=value
FormatArgument(message, name) ==
    LET value == message[name]
        shown == IF name = "data"
                 THEN <<"(">> \o join(<<",">>, [i \in 1..Len(value.items) |->
                                                 str(value.items[i])]) \o <<")">>
                 ELSE str(value)
    IN  Chars[name] \o <<"=">> \o shown

text_format(message, include_time) ==
    LET arguments == SpecOf(message).arguments
        words == (IF include_time THEN <<str(message["time"])>> ELSE <<>>)
                 \o <<Chars[message["type"].s]>>
                 \o [k \in 1..Len(arguments) |-> FormatArgument(message, arguments[k])]
    IN  join(<<" ">>, words)

\* the second of text_parse_number's conversions
NumberOrNone(r) == IF r.exc = "none" THEN r.ret ELSE NoneV
\* the first, then the second
FirstNumber(r, txt) == IF r.exc = "none" THEN r.ret ELSE NumberOrNone(float(txt))

\* text_parse_number: int(text), else float(text), else None
text_parse_number(txt) == FirstNumber(int(txt), txt)

\* the truth value of a number or None
Truthy(value) == value.kind \in {"int", "float"} /\ value.n # 0

\* [int(byte) for byte in pieces]: the integers, or the first ValueError
ConsInt(r, rest) ==
    IF r.exc # "none" THEN r
    ELSE IF rest.exc # "none" THEN rest
    ELSE Return(<<IntA(r.ret.n)>> \o rest.ret)

RECURSIVE IntEach(_, _)
IntEach(pieces, k) ==
    IF k > Len(pieces) THEN Return(<<>>)
    ELSE ConsInt(int(pieces[k]), IntEach(pieces, k + 1))

\* text_parse, the data branch after the parentheses test: the try around
\* the list of integers, then the setattr
SetData(message, data_bytes) ==
    IF data_bytes.exc = "ValueError"
    THEN Raise("ValueError", "unable to parse data bytes")
    ELSE setattr(message, "data", ListV(data_bytes.ret))

\* text_parse, the other branch: the try around setattr
Reraised(r) ==
    IF r.exc = "AttributeError" THEN Raise("ValueError", r.detail) ELSE r

SetNumber(message, name, number) ==
    IF number.exc # "none" THEN number
    ELSE Reraised(setattr(message, NameOf(name), number.ret))

\* text_parse: the body of the loop for one argument, after the split on '='
ParseArgument(message, name, value) ==
    IF name = Chars["data"]
    THEN IF ~startswith(value, "(") /\ endswith(value, ")")
         THEN Raise("ValueError", "missing parentheses in data message")
         ELSE SetData(message, IntEach(split_on(Inner(value), ","), 1))
    ELSE SetNumber(message, name, int(value))

\* text_parse: the loop over the arguments, from the k-th on
RECURSIVE ParseArguments(_, _, _, _)
NextArgument(r, arguments, k, names_seen) ==
    IF r.exc # "none" THEN r
    ELSE ParseArguments(r.ret, arguments, k, names_seen)

SplitArgument(message, parts, arguments, k, names_seen) ==
    IF Len(parts) # 2
    THEN Raise("ValueError", "missing or extraneous equals sign")
    ELSE IF parts[1] \in names_seen
    THEN Raise("ValueError", "argument passed more than once")
    ELSE NextArgument(ParseArgument(message, parts[1], parts[2]), arguments,
                      k + 1, names_seen \cup {parts[1]})

ParseArguments(message, arguments, k, names_seen) ==
    IF k > Len(arguments) THEN Return(message)
    ELSE SplitArgument(message, split_on(arguments[k], "="), arguments, k,
                       names_seen)

\* text_parse from `arguments = words[1:]` on
ParseTail(message, words) ==
    IF message.exc # "none" THEN message
    ELSE ParseArguments(message.ret, Tail(words), 1, {})

\* text_parse from `if time:` on
ParseTimed(message, time, words) ==
    IF message.exc # "none" THEN message
    ELSE ParseTail(IF Truthy(time) THEN setattr(message.ret, "time", time)
                   ELSE message, words)

\* text_parse from `message = Message(words[0])` on
ParseMessage(time, words) ==
    IF Len(words) < 1 THEN Raise("ValueError", "no message found after number")
    ELSE ParseTimed(Message(StrV(NameOf(words[1])), <<>>), time, words)

\* text_parse from `time = text_parse_number(words[0])` on
ParseWords(time, words) ==
    ParseMessage(time, IF time # NoneV THEN Tail(words) ELSE words)

ParseSplit(words) ==
    IF Len(words) < 1 THEN Raise("ValueError", "string is empty")
    ELSE ParseWords(text_parse_number(words[1]), words)

text_parse(txt) == ParseSplit(split(txt))

----------------------------------------------------------------------------
(* Inputs *)

TypeNames == {get_message_specs[i].type : i \in SpecIds}
FieldNames == UNION {Range(get_message_specs[i].arguments) : i \in SpecIds}

\* the sequences over S of length at most n
RECURSIVE SeqsUpTo(_, _)
SeqsUpTo(S, n) ==
    IF n = 0 THEN {<<>>}
    ELSE LET shorter == SeqsUpTo(S, n - 1) IN
         shorter \cup {Append(seq, x) : seq \in shorter, x \in S}

\* the first argument of Message(...): every type name, a string that is no
\* type name, some status bytes, integers that are none, and the float 144.0
ConstructKeys ==
    {StrV(t) : t \in TypeNames}
    \cup {StrV("bogus"), IntV(147), IntV(240), IntV(127), IntV(256), FloatV(1440)}

\* every integer around 0x80 .. 0xFF, and some far from it
IntegerKeys ==
    {IntV(k) : k \in 120..260} \cup {IntV(0), IntV(-1), IntV(-128), IntV(400)}

\* no keyword argument, or a channel
ChannelKeywords ==
    {<<>>} \cup {<< <<"channel", IntV(c)>> >> : c \in 0..15}

\* the elements of the sequences written to data
DataAtoms == {IntA(-1), IntA(0), IntA(127), IntA(128), StrA}

\* the values written to an attribute, around the limits of its rule
InputsFor(name) ==
    CASE name = "channel" -> {IntV(-1), IntV(0), IntV(15), IntV(16), FloatV(15), StrV("x")}
      [] name = "pitch" -> {IntV(-8193), IntV(-8192), IntV(0), IntV(8191), IntV(8192),
                            StrV("x")}
      [] name = "pos" -> {IntV(-1), IntV(0), IntV(16383), IntV(16384), FloatV(15)}
      [] name = "data" -> {ListV(seq) : seq \in SeqsUpTo(DataAtoms, MaxData)}
                          \cup {IntV(5), StrV("x"), TupleV(<<IntA(127)>>)}
      [] name = "time" -> {IntV(0), FloatV(15), StrV("x"), ListV(<<>>)}
      [] name \in {"type", "_spec", "foo"} -> {IntV(0), StrV("note_off")}
      [] OTHER -> {IntV(-1), IntV(0), IntV(127), IntV(128), FloatV(15), StrV("x")}

AttributeNames == FieldNames \cup {"time", "type", "_spec", "foo"}

\* the keyword arguments of a call: at most MaxKwargs of them, no name twice
KeywordPairs ==
    {<<"channel", IntV(15)>>, <<"channel", IntV(16)>>, <<"note", IntV(127)>>,
     <<"note", StrV("x")>>, <<"pitch", IntV(-8192)>>, <<"time", FloatV(15)>>,
     <<"data", ListV(<<IntA(0), IntA(127)>>)>>, <<"data", ListV(<<IntA(128)>>)>>,
     <<"foo", IntV(0)>>, <<"type", StrV("note_off")>>}

Keywords ==
    {kw \in SeqsUpTo(KeywordPairs, MaxKwargs) :
        \A i, j \in 1..Len(kw) : i # j => kw[i][1] # kw[j][1]}

----------------------------------------------------------------------------
(* The program: one Message, constructed, written to, encoded, formatted *)

Op(op, k, name, value, kwargs, exc) ==
    [op |-> op, key |-> k, name |-> name, value |-> value, kwargs |-> kwargs,
     exc |-> exc]

\* no call is pending: the program is between two calls
NoOp == Op("none", NoneV, "", NoneV, <<>>, "none")
Unset == [exc |-> "unset", detail |-> "", ret |-> NoneV]

StreamIdle ==
    /\ stream = <<>> /\ pos = 0 /\ line_number = 0
    /\ results = <<>> /\ gen = "idle"

Init ==
    /\ a = NoMessage /\ b = NoMessage /\ last = NoOp
    /\ text = <<>> /\ parsed = Unset /\ encoded = <<>>
    /\ StreamIdle

\* a = Message(type_, **arguments), type_ among keys, arguments among keywords
Construct(keys, keywords) ==
    /\ last = NoOp /\ a = NoMessage
    /\ \E type_ \in keys, arguments \in keywords :
          LET r == Message(type_, arguments) IN
          /\ a' = IF r.exc = "none" THEN r.ret ELSE a
          /\ last' = Op("construct", type_, "", NoneV, arguments, r.exc)
    /\ text' = <<>> /\ parsed' = Unset /\ encoded' = <<>>
    /\ UNCHANGED <<b, stream, pos, line_number, results, gen>>

\* a.name = value
SetAttr ==
    /\ last = NoOp /\ a # NoMessage
    /\ \E name \in AttributeNames : \E value \in InputsFor(name) :
          LET r == setattr(a, name, value) IN
          /\ a' = r.ret
          /\ last' = Op("setattr", NoneV, name, value, <<>>, r.exc)
    /\ text' = <<>> /\ parsed' = Unset /\ encoded' = <<>>
    /\ UNCHANGED <<b, stream, pos, line_number, results, gen>>

\* del a.name
DelAttr ==
    /\ last = NoOp /\ a # NoMessage
    /\ \E name \in AttributeNames :
          LET r == delattr(a, name) IN
          /\ a' = r.ret
          /\ last' = Op("delattr", NoneV, name, NoneV, <<>>, r.exc)
    /\ text' = <<>> /\ parsed' = Unset /\ encoded' = <<>>
    /\ UNCHANGED <<b, stream, pos, line_number, results, gen>>

\* encoded = a.bytes()
Bytes ==
    /\ last = NoOp /\ a # NoMessage
    /\ encoded' = bytes(a)
    /\ last' = Op("bytes", NoneV, "", NoneV, <<>>, "none")
    /\ text' = <<>> /\ parsed' = Unset
    /\ UNCHANGED <<a, b, stream, pos, line_number, results, gen>>

\* text = text_format(a)
Format ==
    /\ last = NoOp /\ a # NoMessage
    /\ text' = text_format(a, FALSE)
    /\ last' = Op("format", NoneV, "", NoneV, <<>>, "none")
    /\ parsed' = Unset /\ encoded' = <<>>
    /\ UNCHANGED <<a, b, stream, pos, line_number, results, gen>>

\* parsed = text_parse(text), text the text just formatted or written
Parse ==
    /\ last.op \in {"format", "write"}
    /\ parsed' = text_parse(text)
    /\ last' = Op("parse", NoneV, last.name, NoneV, <<>>, text_parse(text).exc)
    /\ UNCHANGED <<a, b, text, encoded, stream, pos, line_number,
                   results, gen>>

\* the call has returned or raised; the program goes on
Continue ==
    /\ last # NoOp
    /\ last' = NoOp
    /\ text' = <<>> /\ parsed' = Unset /\ encoded' = <<>>
    /\ UNCHANGED <<a, b, stream, pos, line_number, results, gen>>

\* the program drops the message
Discard ==
    /\ last = NoOp /\ a # NoMessage
    /\ a' = NoMessage
    /\ UNCHANGED <<b, last, text, parsed, encoded, stream, pos,
                   line_number, results, gen>>

Next ==
    \/ Construct(ConstructKeys, Keywords)
    \/ SetAttr
    \/ DelAttr
    \/ Bytes
    \/ Format
    \/ Parse
    \/ Continue
    \/ Discard

Spec == Init /\ [][Next]_vars

\* the same program, constructing from integer keys
NextKeys ==
    \/ Construct(IntegerKeys, ChannelKeywords)
    \/ Continue
    \/ Discard

SpecKeys == Init /\ [][NextKeys]_vars

----------------------------------------------------------------------------
(* The encoders of the 14-bit fields, on every value of their range *)

\* encoded = encode_pitch(pitch)
EncodePitch ==
    /\ last = NoOp
    /\ \E pitch \in MIN_PITCHWHEEL..MAX_PITCHWHEEL :
          /\ encoded' = encode_pitch(IntV(pitch))
          /\ last' = Op("encode_pitch", NoneV, "", IntV(pitch), <<>>, "none")
    /\ UNCHANGED <<a, b, text, parsed, stream, pos, line_number,
                   results, gen>>

\* encoded = encode_pos(pos)
EncodePos ==
    /\ last = NoOp
    /\ \E p \in MIN_SONGPOS..MAX_SONGPOS :
          /\ encoded' = encode_pos(IntV(p))
          /\ last' = Op("encode_pos", NoneV, "", IntV(p), <<>>, "none")
    /\ UNCHANGED <<a, b, text, parsed, stream, pos, line_number,
                   results, gen>>

NextEncoders ==
    \/ EncodePitch
    \/ EncodePos
    \/ Continue

SpecEncoders == Init /\ [][NextEncoders]_vars

----------------------------------------------------------------------------
(* Two messages: a second one constructed on its own, compared with the first *)

TrueV == [kind |-> "bool", n |-> 1, s |-> "", items |-> <<>>]
FalseV == [kind |-> "bool", n |-> 0, s |-> "", items |-> <<>>]

TypeKeys == {StrV(t) : t \in TypeNames}

\* b = Message(type_, **arguments)
ConstructB(keys, keywords) ==
    /\ last = NoOp /\ a # NoMessage /\ b = NoMessage
    /\ \E type_ \in keys, arguments \in keywords :
          LET r == Message(type_, arguments) IN
          /\ b' = IF r.exc = "none" THEN r.ret ELSE b
          /\ last' = Op("construct_b", type_, "", NoneV, arguments, r.exc)
    /\ UNCHANGED <<a, text, parsed, encoded, stream, pos,
                   line_number, results, gen>>

\* a == b
Compare ==
    /\ last = NoOp /\ a # NoMessage /\ b # NoMessage
    /\ last' = Op("eq", NoneV, "", IF eq(a, b) THEN TrueV ELSE FalseV, <<>>, "none")
    /\ UNCHANGED <<a, b, text, parsed, encoded, stream, pos,
                   line_number, results, gen>>

\* the program drops the second message
DiscardB ==
    /\ last = NoOp /\ b # NoMessage
    /\ b' = NoMessage
    /\ UNCHANGED <<a, last, text, parsed, encoded, stream, pos,
                   line_number, results, gen>>

\* the program drops the first message, having dropped the second
DiscardA == b = NoMessage /\ Discard

NextPair ==
    \/ Construct(TypeKeys, Keywords)
    \/ ConstructB(TypeKeys, Keywords)
    \/ Compare
    \/ Continue
    \/ DiscardB
    \/ DiscardA

SpecPair == Init /\ [][NextPair]_vars

----------------------------------------------------------------------------
(* A message and its copy *)

\* b = a.copy(**overrides)
Copy ==
    /\ last = NoOp /\ a # NoMessage /\ b = NoMessage
    /\ \E overrides \in Keywords :
          LET r == copy(a, overrides) IN
          /\ b' = IF r.exc = "none" THEN r.ret ELSE b
          /\ last' = Op("copy", NoneV, "", NoneV, overrides, r.exc)
    /\ UNCHANGED <<a, text, parsed, encoded, stream, pos,
                   line_number, results, gen>>

\* b.name = value
SetAttrB ==
    /\ last = NoOp /\ b # NoMessage
    /\ \E name \in AttributeNames : \E value \in InputsFor(name) :
          LET r == setattr(b, name, value) IN
          /\ b' = r.ret
          /\ last' = Op("setattr_b", NoneV, name, value, <<>>, r.exc)
    /\ UNCHANGED <<a, text, parsed, encoded, stream, pos,
                   line_number, results, gen>>

NextCopy ==
    \/ Construct(ConstructKeys, Keywords)
    \/ Copy
    \/ SetAttrB
    \/ Continue
    \/ DiscardB
    \/ DiscardA

SpecCopy == Init /\ [][NextCopy]_vars

----------------------------------------------------------------------------
(* The program that parses lines it has written itself: a sysex message
   with a data argument *)

MaxValue == 3

\* the characters of the value of the data argument
ValueChars == {"(", ")", ",", "1", "x"}

DataPrefix == Chars["sysex"] \o <<" ">> \o Chars["data"] \o <<"=">>

\* text = 'sysex data=' + value
Write ==
    /\ last = NoOp /\ a = NoMessage
    /\ \E value \in SeqsUpTo(ValueChars, MaxValue) :
          text' = DataPrefix \o value
    /\ last' = Op("write", NoneV, "data", NoneV, <<>>, "none")
    /\ parsed' = Unset /\ encoded' = <<>>
    /\ UNCHANGED <<a, b, stream, pos, line_number, results, gen>>

NextText ==
    \/ Write
    \/ Parse
    \/ Continue

SpecText == Init /\ [][NextText]_vars

----------------------------------------------------------------------------
(* text_parse_stream: a generator over the lines of a stream *)

\* the module global `parse` that text_parse_stream calls: the module binds
\* text_parse, and no parse, so the call raises NameError
parse(line) == Raise("NameError", "name 'parse' is not defined")

\* the lines of the streams
StreamLines ==
    { Chars["note_on"] \o <<" ">> \o Chars["note"] \o <<"=", "6", "0">>,
      Chars["bogus"],
      <<"#", " ">> \o Chars["foo"],
      <<>>,
      <<" ">> \o Chars["song"] \o <<" ", "#">> \o Chars["foo"] }

\* line.split('#')[0].strip()
Stripped(line) == strip(split_on(line, "#")[1])

\* the pair yielded for a line, or the exception that leaves the generator:
\* the try block around `yield parse(line), None`
Yielded(r, n) ==
    IF r.exc = "none" THEN Return(<<r.ret, NoneV>>)
    ELSE IF r.exc = "ValueError"
    THEN Return(<<NoneV, [line_number |-> n, message |-> r.detail]>>)
    ELSE r

\* stream = text_parse_stream(lines): the generator is created, nothing runs
StartStream ==
    /\ last = NoOp /\ gen = "idle" /\ a = NoMessage
    /\ \E lines \in SeqsUpTo(StreamLines, MaxLines) : stream' = lines
    /\ gen' = "running" /\ line_number' = 1 /\ pos' = 0 /\ results' = <<>>
    /\ UNCHANGED <<a, b, last, text, parsed, encoded>>

\* one turn of the for loop: a line that is empty after the strip yields
\* nothing
SkipLine ==
    /\ gen = "running" /\ pos < Len(stream)
    /\ Stripped(stream[pos + 1]) = <<>>
    /\ pos' = pos + 1 /\ line_number' = line_number + 1
    /\ UNCHANGED <<a, b, last, text, parsed, encoded, stream, results, gen>>

\* one turn of the for loop: the line is parsed; the consumer gets a pair,
\* or the exception the except clause does not catch
ParseLine ==
    /\ gen = "running" /\ pos < Len(stream)
    /\ Stripped(stream[pos + 1]) # <<>>
    /\ LET r == Yielded(parse(Stripped(stream[pos + 1])), line_number) IN
       IF r.exc = "none"
       THEN /\ results' = Append(results, r.ret)
            /\ pos' = pos + 1 /\ line_number' = line_number + 1
            /\ UNCHANGED <<gen, last>>
       ELSE /\ gen' = "failed"
            /\ last' = Op("next", NoneV, "", NoneV, <<>>, r.exc)
            /\ UNCHANGED <<results, pos, line_number>>
    /\ UNCHANGED <<a, b, text, parsed, encoded, stream>>

\* the for loop ends: StopIteration
EndStream ==
    /\ gen = "running" /\ pos = Len(stream)
    /\ gen' = "exhausted"
    /\ UNCHANGED <<a, b, last, text, parsed, encoded, stream, pos, line_number,
                   results>>

\* the consumer drops the generator
DropStream ==
    /\ gen \in {"exhausted", "failed"}
    /\ gen' = "idle" /\ stream' = <<>> /\ pos' = 0 /\ line_number' = 0
    /\ results' = <<>> /\ last' = NoOp
    /\ UNCHANGED <<a, b, text, parsed, encoded>>

NextStream ==
    \/ StartStream
    \/ SkipLine
    \/ ParseLine
    \/ EndStream
    \/ DropStream

SpecStream == Init /\ [][NextStream]_vars

----------------------------------------------------------------------------
(* Claims about the Message object *)

InRange(value, lo, hi) == value.kind = "int" /\ lo <= value.n /\ value.n <= hi

\* the rule a value of the field name has to satisfy
FieldRule(name, value) ==
    CASE name = "channel" -> InRange(value, 0, 15)
      [] name = "pos" -> InRange(value, 0, 16383)
      [] name = "pitch" -> InRange(value, -8192, 8191)
      [] name = "data" -> /\ value.kind \in {"list", "tuple"}
                          /\ \A i \in 1..Len(value.items) :
                                InRange(value.items[i], 0, 127)
      [] name = "time" -> value.kind \in {"int", "float"}
      [] OTHER -> InRange(value, 0, 127)

\* the descriptor of the type named t
Descriptor(t) == CHOOSE sp \in Range(get_message_specs) : sp.type = t
\* its fields, time included
ValidFields(t) == Range(Descriptor(t).arguments) \cup {"time"}
TypeOf(msg) == msg["type"].s

StoredFieldsValid ==
    a # NoMessage =>
        \A name \in DOMAIN a \ {"_spec", "type"} : FieldRule(name, a[name])

InvalidWriteFails ==
    /\ (/\ last.op = "setattr"
        /\ last.name \in ValidFields(TypeOf(a))
        /\ ~FieldRule(last.name, last.value))
       => IF last.name \in {"data", "time"} THEN last.exc \in {"TypeError", "ValueError"}
          ELSE last.exc = (IF last.value.kind = "int" THEN "ValueError" ELSE "TypeError")
    /\ (/\ last.op = "construct"
        /\ last.key.kind = "str" /\ last.key.s \in TypeNames
        /\ \E i \in 1..Len(last.kwargs) :
              /\ last.kwargs[i][1] \in ValidFields(last.key.s)
              /\ ~FieldRule(last.kwargs[i][1], last.kwargs[i][2]))
       => last.exc \in {"TypeError", "ValueError"} /\ a = NoMessage

InvalidWriteKeeps ==
    (last'.op = "setattr" /\ ~FieldRule(last'.name, last'.value)) => a' = a

C2_EncodedLength ==
    last.op = "bytes" =>
        IF TypeOf(a) # "sysex"
        THEN /\ ~Descriptor(TypeOf(a)).size.inf
             /\ Len(encoded) = Descriptor(TypeOf(a)).size.n
        ELSE /\ Descriptor(TypeOf(a)).size.inf
             /\ Len(encoded) = 1 + Len(a["data"].items) + 1
             /\ encoded[Len(encoded)] = 247

\* C3: parsing the text a message formats to succeeds and gives a message
\* equal to it, for every type and all valid field values (a sysex message
\* with empty data included).
C3_TextRoundTrip ==
    last.op = "parse" => parsed.exc = "none" /\ eq(parsed.ret, a)

\* the channel and the status byte a message constructed from the integer
\* k ends with
ExpectedStatus(k, kwargs) ==
    IF k < 240 /\ kwargs # <<>> THEN (k - (k % 16)) + kwargs[1][2].n ELSE k

\* C5: Message(k) succeeds for every integer k in 0x80..0xFF, with
\* status_byte k (for a channel type the channel defaults to k & 0x0F, and a
\* channel c passed explicitly gives (k & 0xF0) | c); for every other integer
\* it fails with the ValueError of an unknown type and makes no message.
C5_IntegerKeys ==
    (last.op = "construct" /\ last.key.kind = "int") =>
        IF 128 <= last.key.n /\ last.key.n <= 255
        THEN (last.kwargs = <<>> \/ last.key.n < 240) =>
                /\ last.exc = "none" /\ a # NoMessage
                /\ status_byte(a) = ExpectedStatus(last.key.n, last.kwargs)
                /\ (last.kwargs = <<>> /\ last.key.n < 240)
                      => a["channel"] = IntV(last.key.n % 16)
        ELSE last.exc = "ValueError" /\ a = NoMessage

\* Message(0x93) has made a message on channel 3 with status byte 0x93
C5_Witness ==
    /\ last.op = "construct" /\ last.key = IntV(147) /\ last.kwargs = <<>>
    /\ a # NoMessage /\ a["channel"] = IntV(3) /\ status_byte(a) = 147

TypeAndFieldsBound ==
    a # NoMessage =>
        /\ TypeOf(a) \in TypeNames
        /\ SpecOf(a) = Descriptor(TypeOf(a))
        /\ DOMAIN a \ {"_spec", "type"} = ValidFields(TypeOf(a))

RefusedWrites ==
    /\ last.op = "delattr" => last.exc = "AttributeError"
    /\ (last.op = "setattr" /\ last.name \notin ValidFields(TypeOf(a)))
          => last.exc = "AttributeError"

WritesKeepBinding ==
    last'.op \in {"setattr", "delattr"} =>
        /\ a'["type"] = a["type"] /\ a'["_spec"] = a["_spec"]
        /\ DOMAIN a' = DOMAIN a
        /\ (\/ last'.op = "delattr"
            \/ last'.name \in {"type", "_spec"}
            \/ last'.name \notin ValidFields(TypeOf(a))) => a' = a

\* C7: the type and the set of fields of a message never change: its fields
\* are always exactly the descriptor's valid fields; every delete, every
\* write to the type binding and every write to a name outside the valid
\* fields fails and leaves the message as it was.
C7_BindingFixed ==
    [](TypeAndFieldsBound /\ RefusedWrites) /\ [][WritesKeepBinding]_vars

\* a message has just refused a write to its type
C7_Witness ==
    /\ a # NoMessage /\ last.op = "setattr" /\ last.name = "type"
    /\ last.exc = "AttributeError" /\ TypeOf(a) = "note_on"

----------------------------------------------------------------------------
(* Claims about the encoders, the comparison and the copy *)

IsByte7(x) == 0 <= x /\ x <= 127

\* C6: a 14-bit field encodes as two 7-bit bytes, low byte first, from which
\* the value is recovered: lo + 128*hi - 8192 for every pitch in
\* -8192..8191, lo + 128*hi for every pos in 0..16383.
C6_FourteenBit ==
    /\ last.op = "encode_pitch" =>
          /\ Len(encoded) = 2 /\ IsByte7(encoded[1]) /\ IsByte7(encoded[2])
          /\ encoded[1] + 128 * encoded[2] - 8192 = last.value.n
    /\ last.op = "encode_pos" =>
          /\ Len(encoded) = 2 /\ IsByte7(encoded[1]) /\ IsByte7(encoded[2])
          /\ encoded[1] + 128 * encoded[2] = last.value.n

\* the pitch 8191, the highest, has been encoded as 0x7F 0x7F
C6_Witness ==
    last.op = "encode_pitch" /\ last.value = IntV(8191) /\ encoded = <<127, 127>>

\* the messages have the same type and the same value in every field of
\* the descriptor (the elements of data one by one)
SameTypeAndFields(m1, m2) ==
    /\ TypeOf(m1) = TypeOf(m2)
    /\ \A name \in Range(Descriptor(TypeOf(m1)).arguments) :
          IF name = "data"
          THEN /\ Len(m1[name].items) = Len(m2[name].items)
               /\ \A i \in 1..Len(m1[name].items) : m1[name].items[i] = m2[name].items[i]
          ELSE m1[name] = m2[name]

\* C8: two messages are equal exactly when they have the same type and the
\* same value in every field of the descriptor; the time plays no part.
C8_Equality ==
    last.op = "eq" => (last.value = TrueV <=> SameTypeAndFields(a, b))

\* two messages that differ in their time only have compared equal
C8_Witness ==
    /\ last.op = "eq" /\ last.value = TrueV
    /\ a["time"] # b["time"] /\ TypeOf(a) = "note_on"

\* the value an override gives, as a field stores it
Stored(name, value) == IF name = "data" THEN TupleV(value.items) ELSE value

\* the overrides construction would reject: a name outside the valid fields,
\* or a value breaking the field's rule
Rejected(msg, overrides) ==
    \E i \in 1..Len(overrides) :
        \/ overrides[i][1] \notin ValidFields(TypeOf(msg))
        \/ ~FieldRule(overrides[i][1], overrides[i][2])

CopyResult ==
    last.op = "copy" =>
        IF Rejected(a, last.kwargs)
        THEN last.exc # "none" /\ b = NoMessage
        ELSE /\ last.exc = "none" /\ b # NoMessage
             /\ TypeOf(b) = TypeOf(a)
             /\ \A name \in ValidFields(TypeOf(a)) :
                   IF \E i \in 1..Len(last.kwargs) : last.kwargs[i][1] = name
                   THEN \E i \in 1..Len(last.kwargs) :
                           /\ last.kwargs[i][1] = name
                           /\ b[name] = Stored(name, last.kwargs[i][2])
                   ELSE b[name] = a[name]

CopyKeepsOriginal == last'.op \in {"copy", "setattr_b"} => a' = a

\* C9: copy gives a new message of the same type holding the override of a
\* field where one is given and the original's value otherwise (time
\* included); an override construction would reject (a value breaking the
\* field's rule, a name outside the valid fields) makes copy fail; the
\* original is unchanged by the copy and by later writes to the copy.
C9_Copy == []CopyResult /\ [][CopyKeepsOriginal]_vars

----------------------------------------------------------------------------
(* Claims about the text codec *)

\* the value of the data argument of the line written
DataValue == SubSeq(text, Len(DataPrefix) + 1, Len(text))

\* the value starts with '(' and ends with ')', and every piece between
\* them, split on commas, is an integer
WellFormedData(value) ==
    /\ Len(value) >= 2 /\ value[1] = "(" /\ value[Len(value)] = ")"
    /\ LET pieces == split_on(SubSeq(value, 2, Len(value) - 1), ",") IN
       \A i \in 1..Len(pieces) :
           Unsigned(pieces[i]) # <<>> /\ AllDigits(Unsigned(pieces[i]))

MalformedData ==
    /\ parsed.exc = "ValueError"
    /\ parsed.detail \in {"missing parentheses in data message",
                          "unable to parse data bytes"}

\* C10: in text_parse a data argument is accepted only when its value starts
\* with '(' and ends with ')' and every comma-separated piece between them
\* is an integer; any other value fails with MalformedData and yields no
\* message.
C10_DataSyntax ==
    (last.op = "parse" /\ last.name = "data" /\ ~WellFormedData(DataValue))
        => MalformedData /\ parsed.ret = NoneV

\* the results text_parse gives for the lines from the k-th on, one for each
\* line that is not empty after the strip, with the number of its line
RECURSIVE Expected(_, _)
Expected(lines, k) ==
    IF k > Len(lines) THEN <<>>
    ELSE IF Stripped(lines[k]) = <<>> THEN Expected(lines, k + 1)
    ELSE LET r == text_parse(Stripped(lines[k])) IN
         << IF r.exc = "none" THEN <<r.ret, NoneV>>
            ELSE <<NoneV, [line_number |-> k, message |-> r.detail]>> >>
         \o Expected(lines, k + 1)

\* C4: text_parse_stream yields one result for each line that is not empty
\* after the comment and the surrounding whitespace are removed, in input
\* order: (message, None) for a line that parses, (None, "line n: detail")
\* for one that does not, n its 1-based position; no line stops the
\* generator before the end of the stream.
C4_StreamIsolated ==
    /\ gen # "failed"
    /\ gen = "exhausted" => results = Expected(stream, 1)

====
